---- MODULE Spec2Model ----
(***************************************************************************)
(* Playback scheduling engine of midi-karaoke: the MidiPlayer class        *)
(* (electron/midi/player.ts, kept as src/unnamed/part_001), and the output *)
(* manager MidiOutputManagerImpl (electron/midi/output.ts) that the        *)
(* application binds to the player as its output.                          *)
(*                                                                         *)
(* All times are integers in milliseconds.  A song stores its note times   *)
(* in seconds; the songs of the model use multiples of half a second,      *)
(* written as the number of half seconds, and SecToMs converts them the    *)
(* way loadSong does (seconds * 1000).  The wall clock (Date.now()) is the *)
(* variable now; it advances by the amounts in ClockSteps.                 *)
(***************************************************************************)
EXTENDS Integers, Sequences, FiniteSets, TLC

VARIABLES
  song,             \* MidiPlayer.song: 0 = null, else an index into Songs
  midiOutput,       \* MidiPlayer.midiOutput: TRUE = an output object is bound, FALSE = null
  playing,          \* MidiPlayer.playing
  paused,           \* MidiPlayer.paused
  startTime,        \* MidiPlayer.startTime (wall clock ms of logical time 0)
  pauseTime,        \* MidiPlayer.pauseTime
  scheduledNotes,   \* MidiPlayer.scheduledNotes: sequence of ScheduledNote
  playbackInterval, \* MidiPlayer.playbackInterval: TRUE = holds a timer handle, FALSE = null
  intervals,        \* number of setInterval timers that are active (created and not cleared)
  pianoChannels,    \* MidiPlayer.pianoChannels
  channelPrograms,  \* MidiPlayer.channelPrograms: function channel -> GM program
  midiDelayMs,      \* MidiPlayer.midiDelayMs
  lyricsLines,      \* MidiPlayer.lyricsLines: the lines of the song's lyrics
  now,              \* Date.now()
  tickDue,          \* the period of a setInterval timer has elapsed and its callback has not run
  pending,          \* setTimeout callbacks not yet run: sequence of [due, ev], in creation order
  sinkOut,          \* messages passed to midiOutput.send by the last step, in send order
  busOut,           \* events emitted on the EventEmitter by the last step, in emit order
  lastOp,           \* history: the last handler that ran (see Op)
  skipTo,           \* history: the target of the forward seek that began this epoch, or NoArg
  sinkOnCount,      \* history: per scheduled note, note-ons sent to the sink in this epoch
  sinkOffCount,     \* history: per scheduled note, note-offs sent to the sink in this epoch
  fresh,            \* history: play() ran on a Stopped transport and only ticks ran since
  played,           \* history: the songs that were loaded when play() was called
  output,           \* MidiOutputManagerImpl.output: NoPort = null, else the name of the open port
  isSwitching,      \* MidiOutputManagerImpl.isSwitching
  connecting,       \* per connect() call: NoPort = not running, else the name it awaits to open
  openCount,        \* number of device ports opened and not closed
  deviceOut,        \* messages a device accepted in the last step: sequence of [dev, msg]
  caught,           \* exceptions of device sends caught and logged in the last step
  queue             \* the rows of the queue table in queued_at order: [song_id, status]

vars == <<song, midiOutput, playing, paused, startTime, pauseTime, scheduledNotes,
          playbackInterval, intervals, pianoChannels, channelPrograms, midiDelayMs,
          lyricsLines,
          now, tickDue, pending,
          sinkOut, busOut, lastOp, skipTo, sinkOnCount, sinkOffCount, fresh, played,
          output, isSwitching, connecting, openCount, deviceOut, caught, queue>>

playerVars == <<song, midiOutput, playing, paused, startTime, pauseTime, scheduledNotes,
                playbackInterval, intervals, pianoChannels, channelPrograms, midiDelayMs,
                lyricsLines,
                now, tickDue, pending,
                sinkOut, busOut, lastOp, skipTo, sinkOnCount, sinkOffCount, fresh, played>>

----------------------------------------------------------------------------
(* Bounds of the model *)

MaxNowSteps == 5         \* the wall clock stops after this many half seconds
MaxIntervals == 2        \* at most this many setInterval timers alive at once
MaxCount == 2            \* the per-epoch delivery counters saturate here
MaxOpen == 2             \* at most this many device ports open at once
MaxQueue == 3            \* at most this many rows are ever added to the queue table

HalfSecondMs == 1000 \div 2
ClockSteps == {HalfSecondMs}
SeekTargets == {0 - 500, 1500, 2000, 3500}
RoutingSeekTargets == {500}
Outputs == {TRUE}
Delays == {0 - 100, 0, 500, 1000}

----------------------------------------------------------------------------
(* Songs handed to loadSong (ParsedSong values).  time and duration of a   *)
(* note are in half seconds, velocity in thousandths.                      *)

Note(midi, velocity, time, duration, channel) ==
  [midi |-> midi, velocity |-> velocity, time |-> time, duration |-> duration,
   channel |-> channel]

\* a track of the MIDI file as @tonejs/midi hands it over; instrument is its
\* program number or NoInstrument
Track(channel, program, notes) ==
  [channel |-> channel, instrument |-> program, notes |-> notes]

NoInstrument == 0 - 1

\* a lyric event; text is the sequence of its characters, time in half seconds
Lyric(text, time) == [text |-> text, ticks |-> 480 * time, time |-> time]

MidiFiles == <<
  \* three piano notes at 0 s, 1 s, 2 s, one second each
  [duration |-> 6, lyrics |-> <<>>,
   tracks |-> << Track(0, 0, << Note(60, 800, 0, 2, 0), Note(62, 500, 2, 2, 0),
                                Note(64, 1000, 4, 2, 0) >>) >>],
  \* no piano-family program on any channel: strings on 1, drums on 9
  [duration |-> 3, lyrics |-> <<>>,
   tracks |-> << Track(9, 0, << Note(36, 900, 1, 1, 9) >>),
                 Track(1, 40, << Note(70, 700, 0, 2, 1) >>) >>],
  \* piano on 0, strings on 1, drums on 9
  [duration |-> 3, lyrics |-> <<>>,
   tracks |-> << Track(9, 0, << Note(38, 900, 0, 1, 9) >>),
                 Track(1, 40, << Note(72, 700, 1, 2, 1) >>),
                 Track(0, 0, << Note(65, 600, 0, 2, 0) >>) >>],
  \* a karaoke song of five seconds: a header, "Hi" at 0.5 s, a bare line
  \* break at 1 s, " yo" at 1.5 s and "\go" with a newline at 2 s
  [duration |-> 10, lyrics |-> << Lyric(<<"@", "T">>, 0), Lyric(<<"H", "i">>, 1), Lyric(<<"/">>, 2),
                 Lyric(<<" ", "y", "o">>, 3), Lyric(<<"\\", "g", "o", "\n">>, 4) >>,
   tracks |-> << Track(0, 0, << Note(67, 800, 0, 2, 0) >>) >>],
  \* a piano note of one second and a piano note of duration 0 at 0.5 s
  [duration |-> 3, lyrics |-> <<>>,
   tracks |-> << Track(0, 0, << Note(71, 600, 0, 2, 0), Note(69, 700, 1, 0, 0) >>) >>]
>>

\* Piano program numbers (0-7 are piano family in GM)
PIANO_PROGRAMS == 0..7

\* track.instrument?.number ?? 0
instrumentProgramOf(track) ==
  IF track.instrument = NoInstrument THEN 0 ELSE track.instrument

\* mutant: the declared program alone decides
isPianoByProgramOnly(program, channel) == program \in PIANO_PROGRAMS

\* PIANO_PROGRAMS.includes(instrumentProgram) && track.channel !== 9
isPiano(program, channel) == program \in PIANO_PROGRAMS /\ channel # 9

\* the entry of ParsedSong.tracks made for a track of the file
TrackInfo(track) ==
  [channel |-> track.channel, instrumentProgram |-> instrumentProgramOf(track),
   notes |-> track.notes,
   isPiano |-> isPiano(instrumentProgramOf(track), track.channel)]

\* the loop over midi.tracks: a track without notes is passed over, the
\* others are pushed on tracks and, if piano, their channel is added to
\* pianoChannelsSet.  acc is <<tracks, pianoChannelsSet>>.
RECURSIVE extractTracks(_, _, _)
extractTracks(midiTracks, k, acc) ==
  IF k > Len(midiTracks) THEN acc
  ELSE LET track == midiTracks[k]
           info == TrackInfo(track)
       IN IF Len(track.notes) > 0
          THEN extractTracks(midiTracks, k + 1,
                 << Append(acc[1], info),
                    IF info.isPiano THEN acc[2] \cup {track.channel} ELSE acc[2] >>)
          ELSE extractTracks(midiTracks, k + 1, acc)

parseKarFileComplete(midi) ==
  LET extracted == extractTracks(midi.tracks, 1, << <<>>, {} >>)
  IN [duration |-> midi.duration, lyrics |-> midi.lyrics,
      tracks |-> extracted[1], pianoChannels |-> extracted[2]]

\* Files for the channel classifier: every list of at most MaxTracks tracks,
\* each on channel 0, 1 or 9, with no instrument or program 7, 8 or 40, and
\* with one note or none.
MaxTracks == 2

ClassifierChannels == <<0, 1, 9>>
ClassifierInstruments == <<NoInstrument, 7, 8, 40>>
TrackKinds == Len(ClassifierChannels) * Len(ClassifierInstruments) * 2

KindTrack(kind) ==
  LET channels == Len(ClassifierChannels)
      instruments == Len(ClassifierInstruments)
      channel == ClassifierChannels[(kind % channels) + 1]
      instrument == ClassifierInstruments[((kind \div channels) % instruments) + 1]
      withNotes == (kind \div (channels * instruments)) = 1
  IN Track(channel, instrument,
           IF withNotes THEN << Note(60, 800, 0, 1, channel) >> ELSE <<>>)

\* the tracks coded by the digits of code, base TrackKinds + 1; digit 0 is
\* an absent track
RECURSIVE ClassifierTracks(_, _)
ClassifierTracks(code, slots) ==
  IF slots = 0 THEN <<>>
  ELSE LET digit == code % (TrackKinds + 1)
           rest == ClassifierTracks(code \div (TrackKinds + 1), slots - 1)
       IN IF digit = 0 THEN rest ELSE <<KindTrack(digit - 1)>> \o rest

RECURSIVE Power(_, _)
Power(base, exponent) == IF exponent = 0 THEN 1 ELSE base * Power(base, exponent - 1)

ClassifierFileCount == Power(TrackKinds + 1, MaxTracks)

ClassifierFile(code) ==
  [duration |-> 2, lyrics |-> <<>>, tracks |-> ClassifierTracks(code, MaxTracks)]

\* the ParsedSong values: the files above, then the classifier files
Songs ==
  [id \in 1..(Len(MidiFiles) + ClassifierFileCount) |->
     parseKarFileComplete(IF id <= Len(MidiFiles) THEN MidiFiles[id]
                          ELSE ClassifierFile(id - Len(MidiFiles) - 1))]

SongIds == 1..Len(MidiFiles)
ClassifierSongIds == (Len(MidiFiles) + 1)..(Len(MidiFiles) + ClassifierFileCount)

SecToMs(halfSeconds) == (halfSeconds * 1000) \div 2

----------------------------------------------------------------------------
(* Pure helpers *)

Min(a, b) == IF a < b THEN a ELSE b
Max(a, b) == IF a > b THEN a ELSE b

\* Math.round(velocity * 127) for a velocity given in thousandths
VelocityToMidi(v) == (2 * 127 * v + 1000) \div 2000

\* channel & 0x0F
Mask4(channel) == channel % 16

RECURSIVE Flatten(_)
\* all notes of all tracks, in track order (the two nested loops of loadSong)
Flatten(tracks) ==
  IF tracks = <<>> THEN <<>> ELSE Head(tracks).notes \o Flatten(Tail(tracks))

ScheduledNoteOf(note) ==
  [note |-> note,
   noteOnTime |-> SecToMs(note.time),
   noteOffTime |-> SecToMs(note.time + note.duration),
   sent |-> FALSE, offSent |-> FALSE]

RECURSIVE InsertSorted(_, _)
\* insert s behind every element whose noteOnTime is <= its own (stable)
InsertSorted(sorted, s) ==
  IF sorted = <<>> THEN <<s>>
  ELSE IF Head(sorted).noteOnTime <= s.noteOnTime
       THEN <<Head(sorted)>> \o InsertSorted(Tail(sorted), s)
       ELSE <<s>> \o sorted

RECURSIVE SortByNoteOn(_)
\* Array.prototype.sort with (a, b) => a.noteOnTime - b.noteOnTime (stable)
SortByNoteOn(seq) ==
  IF seq = <<>> THEN <<>>
  ELSE InsertSorted(SortByNoteOn(SubSeq(seq, 1, Len(seq) - 1)), seq[Len(seq)])

ScheduleAll(s) ==
  LET flat == Flatten(s.tracks)
  IN SortByNoteOn([i \in 1..Len(flat) |-> ScheduledNoteOf(flat[i])])

\* mutant: the flags survive
resetNotesKeepsFlags(notes) == notes

resetNotes(notes) ==
  [i \in 1..Len(notes) |-> [notes[i] EXCEPT !.sent = FALSE, !.offSent = FALSE]]

getCurrentTime ==
  IF ~playing THEN 0
  ELSE IF paused THEN pauseTime - startTime
  ELSE now - startTime

\* mutant: the percussion channel is not excluded
shouldSendWithDrums(channel) ==
  LET ch == Mask4(channel)
  IN IF Cardinality(pianoChannels) > 0 THEN ch \in pianoChannels ELSE TRUE

\* mutant: no fallback when no piano channel was detected
shouldSendOnlyPiano(channel) ==
  LET ch == Mask4(channel)
  IN IF ch = 9 THEN FALSE ELSE ch \in pianoChannels

shouldSendToDisklavier(channel) ==
  LET ch == Mask4(channel)
  IN IF ch = 9 THEN FALSE
     ELSE IF Cardinality(pianoChannels) > 0 THEN ch \in pianoChannels
     ELSE TRUE

\* the 16 control-change messages of allNotesOff, empty when no output is bound
\* mutant: the broadcast stops before the last channel
allNotesOffMsgsShort ==
  IF midiOutput THEN [c \in 1..15 |-> <<176 + (c - 1), 123, 0>>] ELSE <<>>

allNotesOffMsgs ==
  IF midiOutput THEN [c \in 1..16 |-> <<176 + (c - 1), 123, 0>>] ELSE <<>>

Ev(type) == [type |-> type]

\* the transport state of the spec: Stopped, Playing or Paused
Mode == IF ~playing THEN "stopped" ELSE IF paused THEN "paused" ELSE "playing"

NoArg == 0 - 1

\* the calls of connect() that can be in progress at once, and the port names
Procs == {1, 2}
Names == {"A", "B"}
NoPort == "-"

\* how the device answers the sends of one step: it accepts them, throws on
\* the first one, or throws on every one
ThrowPatterns == {"none", "first", "all"}

\* history record of a handler call.  seek: arg is the target, mode the
\* transport state it was called in, rep says that the call before it was a
\* seek to the same target.  play: mode is the transport state it was called
\* in, arg the target of the seek called just before it (NoArg if none).
\* pause: mode is the transport state it was called in.  loadSong: arg is the
\* song, rep says that the call before it was a loadSong of another song.
Op(name, a, m, r) == [op |-> name, arg |-> a, mode |-> m, rep |-> r]

Horizon == MaxNowSteps * HalfSecondMs

\* a setTimeout callback whose time has come; the last clock value stands for
\* every later time as well
IsDue(timer) == timer.due <= now \/ now = Horizon

NoDueTimers == \A i \in 1..Len(pending): ~IsDue(pending[i])

ZeroCounts(notes) == [i \in 1..Len(notes) |-> 0]

\* stopPlaybackLoop: clearInterval on the stored handle, if any
intervalsAfterStopLoop == IF playbackInterval THEN intervals - 1 ELSE intervals

RECURSIVE ProgramMap(_)
\* channelPrograms after the loop over song.tracks: a later track of the same
\* channel overwrites an earlier one
ProgramMap(tracks) ==
  IF tracks = <<>> THEN [c \in {} |-> 0]
  ELSE LET last == tracks[Len(tracks)]
           rest == ProgramMap(SubSeq(tracks, 1, Len(tracks) - 1))
       IN [c \in DOMAIN rest \cup {last.channel} |->
             IF c = last.channel THEN last.instrumentProgram ELSE rest[c]]

\* channelPrograms.get(channel & 0x0F) ?? 0
ProgramOf(channel) ==
  IF Mask4(channel) \in DOMAIN channelPrograms THEN channelPrograms[Mask4(channel)] ELSE 0

----------------------------------------------------------------------------
(* One scheduled note inside tick, at logical time t *)

\* mutant: a note-on fires only after its time
NoteOnDueStrict(s, t) == ~s.sent /\ t > s.noteOnTime

NoteOnDue(s, t) == ~s.sent /\ t >= s.noteOnTime

\* mutant: a note-off fires only after its time
NoteOffDueStrict(s, t) == ~s.offSent /\ (s.sent \/ NoteOnDue(s, t)) /\ t > s.noteOffTime

NoteOffDue(s, t) == ~s.offSent /\ (s.sent \/ NoteOnDue(s, t)) /\ t >= s.noteOffTime

\* mutant: the note-on is sent but never marked as sent
tickNoteForgetsSent(s, t) ==
  [s EXCEPT !.offSent = s.offSent \/ NoteOffDue(s, t)]

tickNote(s, t) ==
  [s EXCEPT !.sent = s.sent \/ NoteOnDue(s, t),
            !.offSent = s.offSent \/ NoteOffDue(s, t)]

\* mutant: the note-on keeps the source channel in its status byte
NoteOnMsgKeepsChannel(s) ==
  <<144 + Mask4(s.note.channel), s.note.midi, VelocityToMidi(s.note.velocity)>>

NoteOnMsg(s) == <<144, s.note.midi, VelocityToMidi(s.note.velocity)>>
NoteOffMsg(s) == <<128, s.note.midi, 0>>

NoteOnEv(s) ==
  [type |-> "noteOn", channel |-> s.note.channel, note |-> s.note.midi,
   velocity |-> VelocityToMidi(s.note.velocity), program |-> ProgramOf(s.note.channel)]
NoteOffEv(s) ==
  [type |-> "noteOff", channel |-> s.note.channel, note |-> s.note.midi]

\* sendNoteOn reaches midiOutput.send
OnToSink(s, t) ==
  NoteOnDue(s, t) /\ midiOutput /\ shouldSendToDisklavier(s.note.channel)
\* sendNoteOff reaches midiOutput.send
OffToSink(s, t) ==
  NoteOffDue(s, t) /\ midiOutput /\ shouldSendToDisklavier(s.note.channel)

\* mutant: the note-off block runs before the note-on block
sinkOfNoteOffFirst(s, t) ==
  (IF OffToSink(s, t) THEN <<NoteOffMsg(s)>> ELSE <<>>)
    \o (IF OnToSink(s, t) THEN <<NoteOnMsg(s)>> ELSE <<>>)

sinkOfNote(s, t) ==
  (IF OnToSink(s, t) THEN <<NoteOnMsg(s)>> ELSE <<>>)
    \o (IF OffToSink(s, t) THEN <<NoteOffMsg(s)>> ELSE <<>>)

\* mutant: only the events that went to the output are published
busOfNoteRoutedOnly(s, t) ==
  (IF OnToSink(s, t) THEN <<NoteOnEv(s)>> ELSE <<>>)
    \o (IF OffToSink(s, t) THEN <<NoteOffEv(s)>> ELSE <<>>)

busOfNote(s, t) ==
  (IF NoteOnDue(s, t) THEN <<NoteOnEv(s)>> ELSE <<>>)
    \o (IF NoteOffDue(s, t) THEN <<NoteOffEv(s)>> ELSE <<>>)

RECURSIVE tickSink(_, _)
tickSink(notes, t) ==
  IF notes = <<>> THEN <<>> ELSE sinkOfNote(Head(notes), t) \o tickSink(Tail(notes), t)

RECURSIVE tickBus(_, _)
tickBus(notes, t) ==
  IF notes = <<>> THEN <<>> ELSE busOfNote(Head(notes), t) \o tickBus(Tail(notes), t)

\* text.startsWith(c)
startsWith(text, c) == text # <<>> /\ text[1] = c

\* text.includes(c)
includes(text, c) == \E i \in 1..Len(text): text[i] = c

isLineBreak(text) ==
  startsWith(text, "/") \/ startsWith(text, "\\") \/ includes(text, "\n") \/ includes(text, "\r")

\* text.replace(/^[/\\]/, '').replace(/[\r\n]/g, '')
cleanText(text) ==
  LET body == IF startsWith(text, "/") \/ startsWith(text, "\\") THEN Tail(text) ELSE text
  IN SelectSeq(body, LAMBDA c: c \notin {"\n", "\r"})

RECURSIVE trimStart(_)
trimStart(text) ==
  IF text # <<>> /\ Head(text) \in {" ", "\t", "\n", "\r"} THEN trimStart(Tail(text)) ELSE text

RECURSIVE trimEnd(_)
trimEnd(text) ==
  IF text # <<>> /\ text[Len(text)] \in {" ", "\t", "\n", "\r"}
  THEN trimEnd(SubSeq(text, 1, Len(text) - 1)) ELSE text

\* lineText.trim()
trim(text) == trimEnd(trimStart(text))

\* the line pushed for the syllables of currentLine
LineOf(currentLine, lineText, endTime) ==
  [text |-> trim(lineText), startTime |-> currentLine[1].time, endTime |-> endTime,
   syllables |-> currentLine]

RECURSIVE groupLoop(_, _, _, _)
\* the loop of groupLyricsIntoLines and the push of the last line behind it;
\* the last line ends two seconds after its last syllable
groupLoop(lyrics, lines, currentLine, lineText) ==
  IF lyrics = <<>>
  THEN IF currentLine # <<>>
       THEN Append(lines, LineOf(currentLine, lineText, currentLine[Len(currentLine)].time + 4))
       ELSE lines
  ELSE LET lyric == Head(lyrics)
           text == lyric.text
       IN IF startsWith(text, "@") THEN groupLoop(Tail(lyrics), lines, currentLine, lineText)
          ELSE LET saves == isLineBreak(text) /\ currentLine # <<>>
                   lines1 == IF saves THEN Append(lines, LineOf(currentLine, lineText, lyric.time))
                             ELSE lines
                   line1 == IF saves THEN <<>> ELSE currentLine
                   text1 == IF saves THEN <<>> ELSE lineText
                   clean == cleanText(text)
               IN IF clean # <<>>
                  THEN groupLoop(Tail(lyrics), lines1,
                                 Append(line1, [lyric EXCEPT !.text = clean]), text1 \o clean)
                  ELSE groupLoop(Tail(lyrics), lines1, line1, text1)

groupLyricsIntoLines(lyrics) == groupLoop(lyrics, <<>>, <<>>, <<>>)

\* mutant: the interval of a line is closed at its end
lineContainsClosed(line, t) == t >= SecToMs(line.startTime) /\ t <= SecToMs(line.endTime)

\* currentTime >= line.startTime && currentTime < line.endTime, currentTime
\* being t / 1000 and the times of the line seconds
lineContains(line, t) == t >= SecToMs(line.startTime) /\ t < SecToMs(line.endTime)

RECURSIVE findIndexFrom(_, _, _)
findIndexFrom(lines, t, i) ==
  IF i > Len(lines) THEN 0 - 1
  ELSE IF lineContains(lines[i], t) THEN i - 1
  ELSE findIndexFrom(lines, t, i + 1)

\* Array.prototype.findIndex: the 0-based index of the first line that
\* contains t, -1 if there is none
findIndex(lines, t) == findIndexFrom(lines, t, 1)

\* getCurrentLyrics at logical time t (milliseconds)
getCurrentLyrics(t) ==
  [lines |-> lyricsLines, currentTime |-> t, currentLineIndex |-> findIndex(lyricsLines, t)]

\* the 'lyrics' event of a tick: getCurrentLyrics as called from tick
LyricsEv(t) ==
  LET lyricsData == getCurrentLyrics(t)
  IN [type |-> "lyrics", lines |-> lyricsData.lines, currentTime |-> lyricsData.currentTime,
      currentLineIndex |-> lyricsData.currentLineIndex]

\* Math.floor(currentTime / 100) !== Math.floor((currentTime - 16) / 100)
UpdateDue(t) == (t \div 100) # ((t - 16) \div 100)

Timers(evs, delay) == [i \in 1..Len(evs) |-> [due |-> now + delay, ev |-> evs[i]]]

Bump(count) == Min(count + 1, MaxCount)

\* mutant: the second branch flips the off flag
seekNoteFlipsOff(s, timeMs) ==
  IF s.noteOnTime >= timeMs THEN [s EXCEPT !.sent = FALSE, !.offSent = FALSE]
  ELSE IF s.noteOffTime >= timeMs THEN [s EXCEPT !.offSent = ~s.offSent]
  ELSE s

\* mutant: the second branch of the re-arm loop clears the on flag
seekNoteClearsSent(s, timeMs) ==
  IF s.noteOnTime >= timeMs THEN [s EXCEPT !.sent = FALSE, !.offSent = FALSE]
  ELSE IF s.noteOffTime >= timeMs THEN [s EXCEPT !.sent = FALSE]
  ELSE s

\* the re-arm loop of seek, for one note
seekNote(s, timeMs) ==
  IF s.noteOnTime >= timeMs THEN [s EXCEPT !.sent = FALSE, !.offSent = FALSE]
  ELSE IF s.noteOffTime >= timeMs THEN [s EXCEPT !.offSent = FALSE]
  ELSE s

seekNotes(notes, timeMs) == [i \in 1..Len(notes) |-> seekNote(notes[i], timeMs)]

----------------------------------------------------------------------------
(* State after construction *)

Init ==
  /\ song = 0
  /\ midiOutput = FALSE
  /\ playing = FALSE
  /\ paused = FALSE
  /\ startTime = 0
  /\ pauseTime = 0
  /\ scheduledNotes = <<>>
  /\ playbackInterval = FALSE
  /\ intervals = 0
  /\ pianoChannels = {}
  /\ channelPrograms = [c \in {} |-> 0]
  /\ midiDelayMs = 500
  /\ lyricsLines = <<>>
  /\ now = 0
  /\ tickDue = FALSE
  /\ pending = <<>>
  /\ sinkOut = <<>>
  /\ busOut = <<>>
  /\ lastOp = Op("init", NoArg, "-", FALSE)
  /\ skipTo = NoArg
  /\ sinkOnCount = <<>>
  /\ sinkOffCount = <<>>
  /\ fresh = FALSE
  /\ played = {}
  /\ output = NoPort
  /\ isSwitching = FALSE
  /\ connecting = [p \in Procs |-> NoPort]
  /\ openCount = 0
  /\ deviceOut = <<>>
  /\ caught = 0
  /\ queue = <<>>

----------------------------------------------------------------------------
(* Handlers *)

setMidiOutput(out) ==
  /\ midiOutput' = out
  /\ sinkOut' = <<>>
  /\ busOut' = <<>>
  /\ UNCHANGED <<song, playing, paused, startTime, pauseTime, scheduledNotes,
                 playbackInterval, intervals, pianoChannels, channelPrograms,
                 midiDelayMs, lyricsLines, now, tickDue, pending, lastOp, skipTo, sinkOnCount, sinkOffCount>>

\* mutant: the delay is stored as given
clampedDelayAsGiven(delayMs) == delayMs

\* Math.max(0, delayMs)
clampedDelay(delayMs) == Max(0, delayMs)

setMidiDelay(delayMs) ==
  /\ lastOp' = Op("setMidiDelay", delayMs, Mode, FALSE)
  /\ midiDelayMs' = clampedDelay(delayMs)
  /\ sinkOut' = <<>>
  /\ busOut' = <<>>
  /\ UNCHANGED <<song, midiOutput, playing, paused, startTime, pauseTime, scheduledNotes,
                 playbackInterval, intervals, pianoChannels, channelPrograms,
                 lyricsLines, now, tickDue, pending, skipTo, sinkOnCount, sinkOffCount>>

loadSong(id) ==
  \* this.stop()
  /\ playing' = FALSE
  /\ paused' = FALSE
  /\ playbackInterval' = FALSE
  /\ intervals' = intervalsAfterStopLoop
  /\ sinkOut' = allNotesOffMsgs
  \* the rest of loadSong
  /\ song' = id
  /\ pianoChannels' = Songs[id].pianoChannels
  /\ channelPrograms' = ProgramMap(Songs[id].tracks)
  /\ scheduledNotes' = ScheduleAll(Songs[id])
  /\ busOut' = <<Ev("allNotesOff"), Ev("stop"), Ev("loaded")>>
  /\ lastOp' = Op("loadSong", id, "-", lastOp.op = "loadSong" /\ lastOp.arg # id)
  /\ skipTo' = NoArg
  /\ sinkOnCount' = ZeroCounts(scheduledNotes')
  /\ sinkOffCount' = ZeroCounts(scheduledNotes')
  /\ lyricsLines' = groupLyricsIntoLines(Songs[id].lyrics)
  /\ UNCHANGED <<midiOutput, startTime, pauseTime, midiDelayMs, now, tickDue, pending>>

\* mutant: the origin is not shifted by the time spent paused
resumedStartTimeNoShift == startTime

\* play() on a Paused transport: startTime += Date.now() - pauseTime
resumedStartTime == startTime + (now - pauseTime)

\* mutant: play() and seek() go on without a song
noSongIgnored == FALSE

\* if (!this.song) return
noSong == song = 0

play ==
  /\ lastOp' = Op("play", IF lastOp.op = "seek" THEN lastOp.arg ELSE NoArg, Mode, FALSE)
  /\ sinkOut' = <<>>
  /\ IF noSong
     THEN /\ busOut' = <<>>
          /\ UNCHANGED <<playing, paused, startTime, scheduledNotes, playbackInterval,
                         intervals, skipTo, sinkOnCount, sinkOffCount>>
     ELSE /\ intervals < MaxIntervals
          /\ IF paused
             THEN /\ startTime' = resumedStartTime
                  /\ paused' = FALSE
                  /\ UNCHANGED <<scheduledNotes, skipTo, sinkOnCount, sinkOffCount>>
             ELSE /\ startTime' = now
                  /\ skipTo' = NoArg
                  /\ scheduledNotes' = resetNotes(scheduledNotes)
                  /\ sinkOnCount' = ZeroCounts(scheduledNotes)
                  /\ sinkOffCount' = ZeroCounts(scheduledNotes)
                  /\ UNCHANGED paused
          /\ playing' = TRUE
          \* startPlaybackLoop
          /\ playbackInterval' = TRUE
          /\ intervals' = intervals + 1
          /\ busOut' = <<Ev("play")>>
  /\ UNCHANGED <<song, midiOutput, pauseTime, pianoChannels, channelPrograms,
                 midiDelayMs, lyricsLines, now, tickDue, pending>>

\* mutant: a Paused transport is paused again
pauseIgnoredWhenStopped == ~playing

\* the early return of pause()
pauseIgnored == ~playing \/ paused

pause ==
  /\ lastOp' = Op("pause", NoArg, Mode, FALSE)
  /\ IF pauseIgnored
     THEN /\ sinkOut' = <<>>
          /\ busOut' = <<>>
          /\ UNCHANGED <<paused, pauseTime, playbackInterval, intervals>>
     ELSE /\ paused' = TRUE
          /\ pauseTime' = now
          /\ playbackInterval' = FALSE
          /\ intervals' = intervalsAfterStopLoop
          /\ sinkOut' = allNotesOffMsgs
          /\ busOut' = <<Ev("allNotesOff"), Ev("pause")>>
  /\ UNCHANGED <<song, midiOutput, playing, startTime, scheduledNotes, pianoChannels,
                 channelPrograms, midiDelayMs, lyricsLines, now, tickDue, pending, skipTo,
                 sinkOnCount, sinkOffCount>>

\* mutant: stop() leaves the paused flag as it is
stopBodyKeepsPaused ==
  /\ playing' = FALSE
  /\ paused' = paused
  /\ playbackInterval' = FALSE
  /\ intervals' = intervalsAfterStopLoop
  /\ sinkOut' = allNotesOffMsgs
  /\ scheduledNotes' = resetNotes(scheduledNotes)
  /\ skipTo' = NoArg
  /\ sinkOnCount' = ZeroCounts(scheduledNotes)
  /\ sinkOffCount' = ZeroCounts(scheduledNotes)

\* the body of stop(), shared by the stop handler and the end-of-song branch of tick
stopBody ==
  /\ playing' = FALSE
  /\ paused' = FALSE
  /\ playbackInterval' = FALSE
  /\ intervals' = intervalsAfterStopLoop
  /\ sinkOut' = allNotesOffMsgs
  /\ scheduledNotes' = resetNotes(scheduledNotes)
  /\ skipTo' = NoArg
  /\ sinkOnCount' = ZeroCounts(scheduledNotes)
  /\ sinkOffCount' = ZeroCounts(scheduledNotes)

stop ==
  /\ stopBody
  /\ busOut' = <<Ev("allNotesOff"), Ev("stop")>>
  /\ lastOp' = Op("stop", NoArg, "-", FALSE)
  /\ UNCHANGED <<song, midiOutput, startTime, pauseTime, pianoChannels, channelPrograms,
                 midiDelayMs, lyricsLines, now, tickDue, pending>>

\* loadSong(null): stop() and this.song = song run, then reading
\* song.pianoChannels throws a TypeError that leaves loadSong
loadSongInvalid ==
  /\ stopBody
  /\ song' = 0
  /\ busOut' = <<Ev("allNotesOff"), Ev("stop")>>
  /\ lastOp' = Op("loadSongInvalid", NoArg, Mode, FALSE)
  /\ UNCHANGED <<midiOutput, startTime, pauseTime, pianoChannels, channelPrograms,
                 midiDelayMs, lyricsLines, now, tickDue, pending>>

seek(timeMs) ==
  /\ lastOp' = Op("seek", timeMs, Mode, lastOp.op = "seek" /\ lastOp.arg = timeMs)
  /\ IF noSong
     THEN /\ sinkOut' = <<>>
          /\ busOut' = <<>>
          /\ UNCHANGED <<startTime, scheduledNotes, playbackInterval, intervals,
                         skipTo, sinkOnCount, sinkOffCount>>
     ELSE LET wasPlaying == playing /\ ~paused
          IN /\ sinkOut' = allNotesOffMsgs
             /\ scheduledNotes' = seekNotes(scheduledNotes, timeMs)
             /\ startTime' = now - timeMs
             /\ playbackInterval' = wasPlaying
             /\ intervals' = intervalsAfterStopLoop + (IF wasPlaying THEN 1 ELSE 0)
             /\ busOut' = <<Ev("allNotesOff"), Ev("seek")>>
             /\ skipTo' = IF wasPlaying /\ getCurrentTime < timeMs THEN timeMs ELSE NoArg
             /\ sinkOnCount' = ZeroCounts(scheduledNotes)
             /\ sinkOffCount' = ZeroCounts(scheduledNotes)
  /\ UNCHANGED <<song, midiOutput, playing, paused, pauseTime, pianoChannels,
                 channelPrograms, midiDelayMs, lyricsLines, now, tickDue, pending>>

\* mutant: the callback also runs on a Stopped transport
tickRunsWhenStopped == song # 0 /\ ~paused

\* the callback returns at once unless a song is loaded and the transport is Playing
tickRuns == song # 0 /\ playing /\ ~paused

\* mutant: the song ends only after its duration
songFinishedLate(currentTime) == currentTime > SecToMs(Songs[song].duration)

\* currentTime >= this.song.duration * 1000
songFinished(currentTime) == currentTime >= SecToMs(Songs[song].duration)

\* the first note of this tick that has a message for the output, 0 if none
FirstToSink(notes, t) ==
  LET hits == {i \in 1..Len(notes): OnToSink(notes[i], t) \/ OffToSink(notes[i], t)}
  IN IF hits = {} THEN 0 ELSE CHOOSE i \in hits: \A k \in hits: i <= k

\* one run of the setInterval callback.  aborts: the first midiOutput.send of
\* the note loop throws; the exception leaves sendNoteOn or sendNoteOff
\* before the flag is set and before the bus event is scheduled, and ends
\* the callback.
tickBody(aborts) ==
  /\ intervals > 0 /\ tickDue
  /\ tickRuns
  /\ tickDue' = FALSE
  /\ lastOp' = Op("tick", NoArg, "-", FALSE)
  /\ LET currentTime == getCurrentTime
     IN IF songFinished(currentTime)
        THEN /\ stopBody
             /\ busOut' = <<Ev("allNotesOff"), Ev("stop"), Ev("ended")>>
             /\ UNCHANGED pending
        ELSE LET thrownAt == IF aborts THEN FirstToSink(scheduledNotes, currentTime) ELSE 0
                 thrown == thrownAt > 0
                 reached(i) == ~thrown \/ i < thrownAt
                 done == IF thrown THEN SubSeq(scheduledNotes, 1, thrownAt - 1)
                         ELSE scheduledNotes
                 delayed == IF thrown THEN tickBus(done, currentTime)
                            ELSE tickBus(done, currentTime) \o <<LyricsEv(currentTime)>>
                 update == IF ~thrown /\ UpdateDue(currentTime) THEN <<Ev("update")>> ELSE <<>>
             IN /\ scheduledNotes' =
                     [i \in 1..Len(scheduledNotes) |->
                        IF reached(i) THEN tickNote(scheduledNotes[i], currentTime)
                        ELSE scheduledNotes[i]]
                /\ sinkOut' =
                     IF thrown
                     THEN <<Head(sinkOfNote(scheduledNotes[thrownAt], currentTime))>>
                     ELSE tickSink(scheduledNotes, currentTime)
                /\ sinkOnCount' =
                     [i \in 1..Len(scheduledNotes) |->
                        IF /\ OnToSink(scheduledNotes[i], currentTime)
                           /\ reached(i) \/ i = thrownAt
                        THEN Bump(sinkOnCount[i]) ELSE sinkOnCount[i]]
                /\ sinkOffCount' =
                     [i \in 1..Len(scheduledNotes) |->
                        IF /\ OffToSink(scheduledNotes[i], currentTime)
                           /\ reached(i) \/ (i = thrownAt /\ ~OnToSink(scheduledNotes[i], currentTime))
                        THEN Bump(sinkOffCount[i]) ELSE sinkOffCount[i]]
                /\ IF midiDelayMs > 0
                   THEN /\ pending' = pending \o Timers(delayed, midiDelayMs)
                        /\ busOut' = update
                   ELSE /\ busOut' = delayed \o update
                        /\ UNCHANGED pending
                /\ UNCHANGED <<playing, paused, playbackInterval, intervals, skipTo>>
  /\ UNCHANGED <<song, midiOutput, startTime, pauseTime, pianoChannels, channelPrograms,
                 midiDelayMs, lyricsLines, now>>

\* the callback with an output whose send returns normally
tick == tickBody(FALSE)

\* the timers phase of the event loop: every setTimeout callback that is due
\* runs, in creation order (all timers of one phase were created with a due
\* time that does not decrease unless the delay was lowered; ties and order
\* follow the due time first)
RECURSIVE DueSorted(_, _)
DueSorted(timers, acc) ==
  IF timers = <<>> THEN acc
  ELSE LET h == Head(timers)
           before == SelectSeq(acc, LAMBDA x: x.due <= h.due)
           after == SelectSeq(acc, LAMBDA x: x.due > h.due)
       IN DueSorted(Tail(timers), before \o <<h>> \o after)

runTimers ==
  /\ ~NoDueTimers
  /\ LET due == DueSorted(SelectSeq(pending, IsDue), <<>>)
     IN busOut' = [i \in 1..Len(due) |-> due[i].ev]
  /\ pending' = SelectSeq(pending, LAMBDA x: ~IsDue(x))
  /\ sinkOut' = <<>>
  /\ UNCHANGED <<song, midiOutput, playing, paused, startTime, pauseTime, scheduledNotes,
                 playbackInterval, intervals, pianoChannels, channelPrograms,
                 midiDelayMs, lyricsLines, now, tickDue, lastOp, skipTo, sinkOnCount, sinkOffCount>>

\* the wall clock moves on; callbacks that are due run before it moves again
advanceTime(d) ==
  /\ now + d <= Horizon
  /\ now' = now + d
  /\ tickDue' = (intervals > 0)
  /\ sinkOut' = <<>>
  /\ busOut' = <<>>
  /\ UNCHANGED <<song, midiOutput, playing, paused, startTime, pauseTime, scheduledNotes,
                 playbackInterval, intervals, pianoChannels, channelPrograms,
                 midiDelayMs, lyricsLines, pending, lastOp, skipTo, sinkOnCount, sinkOffCount>>

----------------------------------------------------------------------------
(* MidiOutputManagerImpl, the output bound to the player *)

\* mutant: send has no try/catch
sendThrowsUncaught(throws) == throws # "none" /\ ~isSwitching /\ output # NoPort

\* whether MidiOutputManagerImpl.send throws to its caller when the device
\* does: the try/catch around this.output.send logs the error and returns
sendThrows(throws) == FALSE

\* the messages the device accepts of those passed to send() in one step
Deliver(msgs, throws) ==
  IF isSwitching \/ output = NoPort \/ throws = "all" THEN <<>>
  ELSE LET kept == IF throws = "first" /\ msgs # <<>> THEN Tail(msgs) ELSE msgs
       IN [k \in 1..Len(kept) |-> [dev |-> output, msg |-> kept[k]]]

\* the exceptions the catch block of send() logs in one step
Caught(msgs, throws) ==
  IF isSwitching \/ output = NoPort \/ msgs = <<>> \/ throws = "none" THEN 0
  ELSE IF throws = "first" THEN 1 ELSE Len(msgs)

\* the player's sends of this step pass through send()
Through(throws) ==
  /\ deviceOut' = Deliver(sinkOut', throws)
  /\ caught' = Caught(sinkOut', throws)
  /\ UNCHANGED <<output, isSwitching, connecting, openCount>>

\* all-notes-off and reset-all-controllers on each of the 16 channels
DisconnectMsgs ==
  [k \in 1..32 |-> <<176 + ((k - 1) \div 2), IF k % 2 = 1 THEN 123 ELSE 121, 0>>]

\* the body of disconnect(): the farewell messages and close() are inside one
\* try block, so a send that throws skips the rest and the close
disconnectBody(throws) ==
  IF output = NoPort
  THEN /\ deviceOut' = <<>>
       /\ caught' = 0
       /\ UNCHANGED <<output, openCount>>
  ELSE /\ output' = NoPort
       /\ IF throws = "none"
          THEN /\ deviceOut' = [k \in 1..32 |-> [dev |-> output, msg |-> DisconnectMsgs[k]]]
               /\ caught' = 0
               /\ openCount' = openCount - 1
          ELSE /\ deviceOut' = <<>>
               /\ caught' = 1
               /\ UNCHANGED openCount

disconnect(throws) ==
  /\ disconnectBody(throws)
  /\ UNCHANGED <<isSwitching, connecting>>
  /\ UNCHANGED <<playerVars, queue>>

\* connect(name) up to its await of the 50 ms timer (JZZ is initialized)
connectStart(p, name, throws) ==
  /\ connecting[p] = NoPort
  /\ isSwitching' = TRUE
  /\ disconnectBody(throws)
  /\ connecting' = [connecting EXCEPT ![p] = name]
  /\ UNCHANGED <<playerVars, queue>>

\* connect(name) after the await: openMidiOut returns the port, or throws
connectResume(p, opens) ==
  /\ connecting[p] # NoPort
  /\ IF opens
     THEN /\ openCount < MaxOpen
          /\ output' = connecting[p]
          /\ openCount' = openCount + 1
     ELSE UNCHANGED <<output, openCount>>
  /\ isSwitching' = FALSE
  /\ connecting' = [connecting EXCEPT ![p] = NoPort]
  /\ deviceOut' = <<>>
  /\ caught' = 0
  /\ UNCHANGED <<playerVars, queue>>

\* send(message) called by any client of the manager
send(message, throws) ==
  /\ deviceOut' = Deliver(<<message>>, throws)
  /\ caught' = Caught(<<message>>, throws)
  /\ UNCHANGED <<output, isSwitching, connecting, openCount>>
  /\ UNCHANGED <<playerVars, queue>>

----------------------------------------------------------------------------
(* Specifications *)

\* the history of the calls: fresh holds after a play() on a Stopped transport
\* with a song loaded, until a call other than a tick; played collects the
\* songs play() was called for; the handlers of the player leave the queue
\* table alone
History(f, p) == fresh' = f /\ played' = p /\ UNCHANGED queue

PlayIsFresh == song # 0 /\ ~playing

PlayedAfterPlay == IF song # 0 THEN played \cup {song} ELSE played

\* Scheduling: a callback of the timers phase that is due runs before the next
\* handler and before the clock moves on.  The environment calls the handlers
\* in any order, with songs from ids and seek targets from targets.
\* setMidiDelay belongs to the specification of the event bus.
\* In Spec, SpecRouting and SpecLoad no device is connected to the manager.
NextWith(ids, targets) ==
  \/ NoDueTimers /\ (\E out \in Outputs: setMidiOutput(out))
       /\ History(FALSE, played) /\ Through("none")
  \/ NoDueTimers /\ (\E id \in ids: loadSong(id)) /\ History(FALSE, played) /\ Through("none")
  \/ NoDueTimers /\ play /\ History(PlayIsFresh, PlayedAfterPlay) /\ Through("none")
  \/ NoDueTimers /\ pause /\ History(FALSE, played) /\ Through("none")
  \/ NoDueTimers /\ stop /\ History(FALSE, played) /\ Through("none")
  \/ NoDueTimers /\ (\E timeMs \in targets: seek(timeMs))
       /\ History(FALSE, played) /\ Through("none")
  \/ NoDueTimers /\ tick /\ History(fresh /\ playing', played) /\ Through("none")
  \/ runTimers /\ History(fresh, played) /\ Through("none")
  \/ NoDueTimers /\ (\E d \in ClockSteps: advanceTime(d))
       /\ History(fresh, played) /\ Through("none")

\* the three-note piano song under every transport operation
Next == NextWith({1}, SeekTargets)

Spec == Init /\ [][Next]_vars

\* the handlers of Spec with one seek target, and loads that fail
LoadSeekTargets == {1500}

NextLoad ==
  \/ NextWith({1}, LoadSeekTargets)
  \/ NoDueTimers /\ loadSongInvalid /\ History(FALSE, played) /\ Through("none")

SpecLoad == Init /\ [][NextLoad]_vars

\* the songs with drums and non-piano channels
NextRouting == NextWith({2, 3}, RoutingSeekTargets)

\* playback of the three-note song through the manager, one connect() at a
\* time, with a device that may throw
NextSink ==
  \/ NoDueTimers /\ (\E out \in Outputs: setMidiOutput(out))
       /\ History(FALSE, played) /\ Through("none")
  \/ NoDueTimers /\ loadSong(1) /\ History(FALSE, played)
       /\ \E throws \in ThrowPatterns: Through(throws)
  \/ NoDueTimers /\ play /\ History(PlayIsFresh, PlayedAfterPlay) /\ Through("none")
  \/ NoDueTimers /\ stop /\ History(FALSE, played)
       /\ \E throws \in ThrowPatterns: Through(throws)
  \/ NoDueTimers /\ \E throws \in ThrowPatterns:
       tickBody(sendThrows(throws)) /\ History(fresh /\ playing', played) /\ Through(throws)
  \/ runTimers /\ History(fresh, played) /\ Through("none")
  \/ NoDueTimers /\ (\E d \in ClockSteps: advanceTime(d))
       /\ History(fresh, played) /\ Through("none")
  \/ \E name \in {"A"}, throws \in ThrowPatterns: connectStart(1, name, throws)
  \/ \E opens \in BOOLEAN: connectResume(1, opens)

SpecSink == Init /\ [][NextSink]_vars

\* the event bus: playback of the song with strings and drums while the
\* audio offset is changed at run time
NextBus ==
  \/ NoDueTimers /\ (\E out \in Outputs: setMidiOutput(out))
       /\ History(FALSE, played) /\ Through("none")
  \/ NoDueTimers /\ loadSong(2) /\ History(FALSE, played) /\ Through("none")
  \/ NoDueTimers /\ play /\ History(PlayIsFresh, PlayedAfterPlay) /\ Through("none")
  \/ NoDueTimers /\ stop /\ History(FALSE, played) /\ Through("none")
  \/ NoDueTimers /\ (\E delayMs \in Delays: setMidiDelay(delayMs))
       /\ History(FALSE, played) /\ Through("none")
  \/ NoDueTimers /\ tick /\ History(fresh /\ playing', played) /\ Through("none")
  \/ runTimers /\ History(fresh, played) /\ Through("none")
  \/ NoDueTimers /\ (\E d \in ClockSteps: advanceTime(d))
       /\ History(fresh, played) /\ Through("none")

SpecBus == Init /\ [][NextBus]_vars

\* playback of the song with the note of duration 0
NextZero == NextWith({5}, RoutingSeekTargets)

SpecZero == Init /\ [][NextZero]_vars

\* the seek target of the karaoke playback
LyricsSeekTargets == {3500}

\* playback of the karaoke song
NextLyrics == NextWith({4}, LyricsSeekTargets)

SpecLyrics == Init /\ [][NextLyrics]_vars

\* the timers phase as a step of the specifications
runTimersStep == runTimers /\ History(fresh, played) /\ Through("none")

tickStep == NoDueTimers /\ tick /\ History(fresh /\ playing', played) /\ Through("none")

advanceTimeStep ==
  NoDueTimers /\ (\E d \in ClockSteps: advanceTime(d))
    /\ History(fresh, played) /\ Through("none")

\* the parser's result for every file is handed to loadSong, a classifier
\* file as the first song or over one of the songs of MidiFiles
NextClassify ==
  /\ song \in {0} \cup SongIds
  /\ \E id \in SongIds \cup ClassifierSongIds: loadSong(id)
  /\ History(FALSE, played)
  /\ Through("none")

SpecClassify == Init /\ [][NextClassify]_vars

\* one playback: the song is loaded once and play() is called once, then the
\* audio offset changes and stop() is called at any time
NextOffset ==
  \/ NoDueTimers /\ song = 0 /\ loadSong(2) /\ History(FALSE, played) /\ Through("none")
  \/ NoDueTimers /\ song # 0 /\ played = {} /\ play
       /\ History(PlayIsFresh, PlayedAfterPlay) /\ Through("none")
  \/ NoDueTimers /\ playing /\ stop /\ History(FALSE, played) /\ Through("none")
  \/ NoDueTimers /\ (\E delayMs \in Delays: setMidiDelay(delayMs))
       /\ History(FALSE, played) /\ Through("none")
  \/ tickStep
  \/ runTimersStep
  \/ advanceTimeStep

SpecOffset == Init /\ [][NextOffset]_vars

\* the event loop runs every callback that is due: the interval callback,
\* the setTimeout callbacks, and the clock moves on
LiveSpecOffset ==
  SpecOffset /\ WF_vars(tickStep) /\ WF_vars(runTimersStep) /\ WF_vars(advanceTimeStep)

----------------------------------------------------------------------------
(* The queue handlers of the main process around the player *)

\* the song the queue requests are made for
QueueSongs == {2}

QueueItem(songId) == [song_id |-> songId, status |-> "pending"]

\* the position of the first row with this status, 0 if there is none
FirstWithStatus(q, status) ==
  LET hits == {k \in 1..Len(q): q[k].status = status}
  IN IF hits = {} THEN 0 ELSE CHOOSE k \in hits: \A j \in hits: k <= j

\* getNextInQueue: the oldest pending row
getNextInQueue(q) == FirstWithStatus(q, "pending")

\* setQueueItemStatus on row k, if there is such a row
setQueueItemStatus(q, k, status) ==
  IF k = 0 THEN q ELSE [q EXCEPT ![k].status = status]

\* clearQueue: DELETE FROM queue WHERE status = 'pending'
clearQueue(q) == SelectSeq(q, LAMBDA item: item.status # "pending")

\* a handler that leaves the player alone
playerIdle(name) ==
  /\ lastOp' = Op(name, NoArg, Mode, FALSE)
  /\ sinkOut' = <<>>
  /\ busOut' = <<>>
  /\ fresh' = FALSE
  /\ UNCHANGED <<song, midiOutput, playing, paused, startTime, pauseTime, scheduledNotes,
                 playbackInterval, intervals, pianoChannels, channelPrograms, midiDelayMs,
                 lyricsLines, now, tickDue, pending, skipTo, sinkOnCount, sinkOffCount,
                 played>>

\* playNextInQueue with a pending row in q whose song is found and parses:
\* the row becomes 'playing', then setMidiOutput, loadSong and play() run.
\* stopFirst: the handler has called midiPlayer.stop() before; inTick: the
\* handler is the 'ended' listener, called from the tick that ended the song
playNextInQueue(q, stopFirst, inTick, name) ==
  LET next == getNextInQueue(q)
      id == q[next].song_id
      sixteen == [c \in 1..16 |-> <<176 + (c - 1), 123, 0>>]
  IN /\ next # 0
     /\ intervalsAfterStopLoop < MaxIntervals
     /\ queue' = setQueueItemStatus(q, next, "playing")
     /\ midiOutput' = TRUE
     \* loadSong
     /\ song' = id
     /\ pianoChannels' = Songs[id].pianoChannels
     /\ channelPrograms' = ProgramMap(Songs[id].tracks)
     /\ scheduledNotes' = ScheduleAll(Songs[id])
     /\ lyricsLines' = groupLyricsIntoLines(Songs[id].lyrics)
     \* play() on the Stopped transport
     /\ playing' = TRUE
     /\ paused' = FALSE
     /\ startTime' = now
     /\ playbackInterval' = TRUE
     /\ intervals' = intervalsAfterStopLoop + 1
     /\ skipTo' = NoArg
     /\ sinkOnCount' = ZeroCounts(scheduledNotes')
     /\ sinkOffCount' = ZeroCounts(scheduledNotes')
     /\ sinkOut' = (IF stopFirst THEN allNotesOffMsgs ELSE <<>>) \o sixteen
     /\ busOut' = (IF stopFirst THEN <<Ev("allNotesOff"), Ev("stop")>> ELSE <<>>)
                    \o (IF inTick THEN <<Ev("ended")>> ELSE <<>>)
                    \o <<Ev("allNotesOff"), Ev("stop"), Ev("loaded"), Ev("play")>>
     /\ tickDue' = (IF inTick THEN FALSE ELSE tickDue)
     /\ lastOp' = Op(name, id, Mode, FALSE)
     /\ fresh' = TRUE
     /\ played' = played \cup {id}
     /\ UNCHANGED <<pauseTime, midiDelayMs, now, pending>>

\* ipcMain.handle('queue:add')
queueAdd(songId) ==
  /\ Len(queue) < MaxQueue
  /\ LET q == Append(queue, QueueItem(songId))
     IN IF ~playing THEN playNextInQueue(q, FALSE, FALSE, "queue:add")
        ELSE queue' = q /\ playerIdle("queue:add")

\* ipcMain.handle('queue:skip')
queueSkip ==
  LET q == setQueueItemStatus(queue, FirstWithStatus(queue, "playing"), "skipped")
  IN IF getNextInQueue(q) # 0 THEN playNextInQueue(q, TRUE, FALSE, "queue:skip")
     ELSE queue' = q /\ stop /\ fresh' = FALSE /\ played' = played

\* ipcMain.handle('queue:clear')
queueClear == queue' = clearQueue(queue) /\ stop /\ fresh' = FALSE /\ played' = played

\* ipcMain.handle('playback:play')
playbackPlay ==
  IF paused THEN play /\ History(FALSE, played)
  ELSE IF ~playing /\ getNextInQueue(queue) # 0
       THEN playNextInQueue(queue, FALSE, FALSE, "playback:play")
       ELSE UNCHANGED queue /\ playerIdle("playback:play")

\* the interval callback; at the end of the song tick calls stop() and emits
\* 'ended', whose listener marks the playing row completed and plays the next
tickWithEnded ==
  IF tickRuns /\ songFinished(getCurrentTime)
  THEN LET q == setQueueItemStatus(queue, FirstWithStatus(queue, "playing"), "completed")
       IN /\ intervals > 0 /\ tickDue
          /\ IF getNextInQueue(q) # 0 THEN playNextInQueue(q, TRUE, TRUE, "tick")
             ELSE queue' = q /\ tick /\ fresh' = FALSE /\ played' = played
  ELSE tick /\ History(fresh /\ playing', played)

\* the requests of the renderer and of the web clients, and the callbacks
NextQueue ==
  \/ NoDueTimers /\ (\E songId \in QueueSongs: queueAdd(songId)) /\ Through("none")
  \/ NoDueTimers /\ queueSkip /\ Through("none")
  \/ NoDueTimers /\ queueClear /\ Through("none")
  \/ NoDueTimers /\ playbackPlay /\ Through("none")
  \/ NoDueTimers /\ pause /\ History(FALSE, played) /\ Through("none")
  \/ NoDueTimers /\ stop /\ History(FALSE, played) /\ Through("none")
  \/ NoDueTimers /\ tickWithEnded /\ Through("none")
  \/ runTimersStep
  \/ advanceTimeStep

SpecQueue == Init /\ [][NextQueue]_vars

\* a message of a client of the manager
TestMessage == <<144, 60, 100>>

\* the manager alone: overlapping connect() calls, disconnect() and send()
NextSwitch ==
  \/ \E p \in Procs, name \in Names, throws \in ThrowPatterns: connectStart(p, name, throws)
  \/ \E p \in Procs, opens \in BOOLEAN: connectResume(p, opens)
  \/ \E throws \in ThrowPatterns: disconnect(throws)
  \/ \E throws \in ThrowPatterns: send(TestMessage, throws)

SpecSwitch == Init /\ [][NextSwitch]_vars

SpecRouting == Init /\ [][NextRouting]_vars

----------------------------------------------------------------------------
(* Properties.  An epoch of note flags begins at loadSong, stop (also the  *)
(* one at the end of the song), seek, and at a play() that starts fresh;   *)
(* sinkOnCount and sinkOffCount count the deliveries to the output since.  *)

IsNoteOn(m) == m[1] = 144
IsNoteOff(m) == m[1] = 128

InTickOrder ==
  \A j, k \in 1..Len(sinkOut):
    (IsNoteOff(sinkOut[j]) /\ IsNoteOn(sinkOut[k]) /\ sinkOut[j][2] = sinkOut[k][2]) => k < j

\* no step delivers the note-on of a note whose note-off was already
\* delivered in this epoch
OnAfterOffStep ==
  \A i \in DOMAIN sinkOnCount:
    (i \in DOMAIN sinkOnCount' /\ sinkOnCount'[i] > sinkOnCount[i]) => sinkOffCount[i] = 0

\* C2: within one epoch no note's note-off is delivered to the output before
\* its note-on, over all sequences of play, pause, seek and tick.
Ordering == []InTickOrder /\ [][OnAfterOffStep]_vars

\* one tick delivered the note-on and then the note-off of the same note
OrderingWitness ==
  /\ lastOp.op = "tick"
  /\ \E j, k \in 1..Len(sinkOut):
       j < k /\ IsNoteOn(sinkOut[j]) /\ IsNoteOff(sinkOut[k]) /\ sinkOut[j][2] = sinkOut[k][2]

\* C3 as stated: no message with channel 9 ever reaches the output.
NoChannel9Message ==
  \A j \in 1..Len(sinkOut): sinkOut[j][1] % 16 # 9

\* C3 as amended: no note-on or note-off of a note whose channel is 9 reaches
\* the output, whatever the piano-channel set is; the only messages the output
\* receives on channel 9 are the all-notes-off control changes.
ChannelSafety ==
  \A j \in 1..Len(sinkOut):
    LET m == sinkOut[j]
    IN /\ (m[1] % 16 = 9 => m = <<185, 123, 0>>)
       /\ (IsNoteOn(m) \/ IsNoteOff(m)) =>
            \A i \in 1..Len(scheduledNotes):
              scheduledNotes[i].note.midi = m[2] => scheduledNotes[i].note.channel % 16 # 9

\* a tick with an output bound and no piano channel sent something while a
\* drum note was due
ChannelSafetyWitness ==
  /\ lastOp.op = "tick"
  /\ midiOutput
  /\ pianoChannels = {}
  /\ sinkOut # <<>>
  /\ \E i \in 1..Len(scheduledNotes):
       scheduledNotes[i].note.channel = 9 /\ scheduledNotes[i].sent

\* the routing rule of the spec
Routable(c) == (c % 16) # 9 /\ (pianoChannels = {} \/ (c % 16) \in pianoChannels)

SinkGets(m) == \E j \in 1..Len(sinkOut): sinkOut[j] = m

RoutingStep ==
  \A i \in DOMAIN scheduledNotes:
    (i \in DOMAIN scheduledNotes' /\ song' = song) =>
      LET s == scheduledNotes[i]
          after == scheduledNotes'[i]
      IN /\ (~s.sent /\ after.sent) =>
              (SinkGets(NoteOnMsg(s))' <=> (midiOutput /\ Routable(s.note.channel)))
         /\ (~s.offSent /\ after.offSent) =>
              (SinkGets(NoteOffMsg(s))' <=> (midiOutput /\ Routable(s.note.channel)))

\* C4: a note event that becomes due reaches the bound output if and only if
\* its channel is not 9 and the piano-channel set is empty or contains it.
RoutingFunction == [][RoutingStep]_vars

\* fallback: with no piano channel, the note-on of the strings channel was sent
RoutingWitness ==
  /\ lastOp.op = "tick"
  /\ pianoChannels = {}
  /\ \E i \in 1..Len(scheduledNotes):
       scheduledNotes[i].note.channel = 1 /\ SinkGets(NoteOnMsg(scheduledNotes[i]))

\* C5 as stated: play() while Playing changes neither the logical-time origin,
\* nor a note flag, nor the tick loop.
PlayWhilePlayingStep ==
  (song # 0 /\ playing /\ ~paused /\ play) =>
    UNCHANGED <<startTime, scheduledNotes, playbackInterval, intervals>>

PlayWhilePlayingIsNoOp == [][PlayWhilePlayingStep]_vars

\* the flags of a note as the spec classifies them against a seek target
Classified(s, T) ==
  IF s.noteOnTime >= T THEN ~s.sent /\ ~s.offSent
  ELSE IF s.noteOffTime >= T THEN s.sent /\ ~s.offSent
  ELSE s.sent /\ s.offSent

\* play() called on a Stopped transport right after seek(T), T positive
PlayAfterStoppedSeek ==
  /\ lastOp.op = "seek"
  /\ lastOp.mode = "stopped"
  /\ lastOp.arg > 0
  /\ song # 0
  /\ play

\* C6 as stated: after seek(T) on a Stopped transport and play(), playback
\* starts at logical time T with the notes before T already on or done.
SeekStoppedThenPlayStep ==
  PlayAfterStoppedSeek =>
    /\ getCurrentTime' = lastOp.arg
    /\ \A i \in 1..Len(scheduledNotes'): Classified(scheduledNotes'[i], lastOp.arg)

SeekStoppedThenPlayStartsAtTarget == [][SeekStoppedThenPlayStep]_vars

\* the first tick after play() was called on a Stopped transport after a
\* seek, when it comes before the end of the song
FirstTickAfterStoppedSeek ==
  /\ lastOp.op = "play"
  /\ lastOp.mode = "stopped"
  /\ lastOp.arg > 0
  /\ song # 0
  /\ getCurrentTime < SecToMs(Songs[song].duration)
  /\ tick

SeekStoppedThenPlayFreshStep ==
  /\ PlayAfterStoppedSeek =>
       /\ playing' /\ ~paused'
       /\ getCurrentTime' = 0
       /\ \A i \in 1..Len(scheduledNotes'):
            ~scheduledNotes'[i].sent /\ ~scheduledNotes'[i].offSent
  /\ FirstTickAfterStoppedSeek =>
       \A i \in 1..Len(scheduledNotes):
         scheduledNotes[i].noteOnTime = 0 =>
           /\ scheduledNotes'[i].sent
           /\ midiOutput => SinkGets(NoteOnMsg(scheduledNotes[i]))'

\* C6 as amended: after seek(T) on a Stopped transport and play(), playback
\* starts at logical time 0 with every note flag cleared, and the first tick
\* fires the note at t=0: the seek target is discarded.
SeekStoppedThenPlayStartsFresh == [][SeekStoppedThenPlayFreshStep]_vars

\* play() was called on a Stopped transport right after seek(1500)
SeekStoppedThenPlayWitness ==
  /\ lastOp.op = "play"
  /\ lastOp.mode = "stopped"
  /\ lastOp.arg = 1500
  /\ playing
  /\ getCurrentTime = 0
  /\ Len(scheduledNotes) = 3

\* C7 as stated: after seek(T) with a song loaded every note has the flags
\* of its class: (false,false), (true,false) or (true,true).
SeekClassification ==
  (lastOp.op = "seek" /\ song # 0) =>
    \A i \in 1..Len(scheduledNotes): Classified(scheduledNotes[i], lastOp.arg)

\* C8 as stated: after a forward seek to T while Playing, no note that ends
\* before T is delivered to the output in that epoch, and no note that
\* sounds at T gets its note-on delivered.
NoReplayOfSkippedNotes ==
  skipTo # NoArg =>
    \A i \in 1..Len(scheduledNotes):
      LET s == scheduledNotes[i]
      IN /\ s.noteOffTime < skipTo => (sinkOnCount[i] = 0 /\ sinkOffCount[i] = 0)
         /\ (s.noteOnTime < skipTo /\ skipTo <= s.noteOffTime) => sinkOnCount[i] = 0

SeekAgainStep ==
  \A T \in SeekTargets:
    (lastOp.op = "seek" /\ lastOp.arg = T /\ song # 0 /\ seek(T)) =>
      scheduledNotes' = scheduledNotes

\* C9: seek(T) called right after seek(T), with no tick in between, leaves
\* the note flags as the first call left them.
SeekIdempotent == [][SeekAgainStep]_vars

\* a repeated seek(T) with a note before T that was sent and a note after it
SeekIdempotentWitness ==
  /\ lastOp.op = "seek"
  /\ lastOp.rep
  /\ \E i, j \in 1..Len(scheduledNotes):
       /\ scheduledNotes[i].noteOnTime < lastOp.arg
       /\ lastOp.arg <= scheduledNotes[i].noteOffTime
       /\ scheduledNotes[i].sent
       /\ scheduledNotes[j].noteOnTime >= lastOp.arg

SeekWhilePausedReports ==
  (lastOp.op = "seek" /\ lastOp.mode = "paused") =>
    (playing /\ paused /\ getCurrentTime = lastOp.arg)

SeekWhilePausedResumeStep ==
  (lastOp.op = "seek" /\ lastOp.mode = "paused" /\ play) =>
    getCurrentTime' = lastOp.arg

\* C10 as stated: after pause(), seek(T), play() the transport stays Paused
\* until play(), reports logical time T while Paused, and resumes at T.
SeekWhilePaused == []SeekWhilePausedReports /\ [][SeekWhilePausedResumeStep]_vars

PauseKeepsTimeStep ==
  /\ (playing /\ ~paused /\ pause) => (paused' /\ getCurrentTime' = getCurrentTime)
  /\ (paused /\ \E d \in ClockSteps: advanceTime(d)) => getCurrentTime' = getCurrentTime
  /\ (paused /\ play) => (~paused' /\ getCurrentTime' = getCurrentTime)

\* C11: pause() keeps the logical time of the pause instant, the logical time
\* does not move while the wall clock runs on a Paused transport, and play()
\* resumes at that same logical time.
PauseResumeRoundTrip == [][PauseKeepsTimeStep]_vars

\* resumed half a second into the song after half a second or more of pause
PauseResumeWitness ==
  /\ lastOp.op = "play"
  /\ lastOp.mode = "paused"
  /\ lastOp.arg = NoArg
  /\ now > pauseTime
  /\ getCurrentTime = 500
  /\ startTime > 0

PauseNoOpStep ==
  ((~playing \/ paused) /\ pause) =>
    /\ UNCHANGED <<song, midiOutput, playing, paused, startTime, pauseTime,
                   scheduledNotes, playbackInterval, intervals, pianoChannels,
                   channelPrograms, midiDelayMs, pending>>
    /\ sinkOut' = <<>>
    /\ busOut' = <<>>

\* C12: pause() on a Paused or Stopped transport changes no state and sends
\* nothing, so the all-notes-off of pause(); pause() is sent once.
PauseIdempotent == [][PauseNoOpStep]_vars

\* pause() was called on a Paused transport with an output bound
PauseIdempotentWitness ==
  /\ lastOp.op = "pause"
  /\ lastOp.mode = "paused"
  /\ paused
  /\ midiOutput
  /\ sinkOut = <<>>

\* the number of messages a routable note should have had delivered by time t
Expected(s, eventTime, t) ==
  IF midiOutput /\ Routable(s.note.channel) /\ eventTime <= t THEN 1 ELSE 0

\* C13: after play() on a Stopped transport and ticks only, right after a
\* tick at logical time t before the end of the song the output has received
\* exactly one note-on for each routable note with noteOnTime <= t, exactly one
\* note-off for each routable note with noteOffTime <= t, and nothing else.
SchedulerResult ==
  (fresh /\ lastOp.op = "tick" /\ playing /\ ~tickDue) =>
    \A i \in 1..Len(scheduledNotes):
      LET s == scheduledNotes[i]
      IN /\ sinkOnCount[i] = Expected(s, s.noteOnTime, getCurrentTime)
         /\ sinkOffCount[i] = Expected(s, s.noteOffTime, getCurrentTime)

\* three notes at 0, 1 and 2 s of 1 s each: at 2500 ms three note-ons and
\* two note-offs
SchedulerResultWitness ==
  /\ fresh /\ lastOp.op = "tick" /\ playing /\ ~tickDue
  /\ midiOutput
  /\ getCurrentTime = 2500
  /\ sinkOnCount = <<1, 1, 1>>
  /\ sinkOffCount = <<1, 1, 0>>

FailedLoadStep ==
  loadSongInvalid =>
    /\ UNCHANGED <<song, scheduledNotes, playing, paused, startTime, pauseTime, pianoChannels>>
    /\ getCurrentTime' = getCurrentTime

\* C14 as stated: a loadSong that throws leaves the loaded song, the note
\* flags, the transport mode, the logical time and the piano channels as
\* they were.
FailedLoadIsAtomic == [][FailedLoadStep]_vars

\* C16 as stated: after loadSong or stop the transport is Stopped, no tick
\* loop is running, every note flag is false and the logical time is 0.
ResetPostcondition ==
  lastOp.op \in {"loadSong", "stop"} =>
    /\ ~playing /\ ~paused
    /\ intervals = 0 /\ ~playbackInterval
    /\ \A i \in 1..Len(scheduledNotes): ~scheduledNotes[i].sent /\ ~scheduledNotes[i].offSent
    /\ getCurrentTime = 0

\* a call that interrupts the playback
Interruption ==
  /\ lastOp'.op \in {"pause", "stop", "seek", "loadSong"}
  /\ \/ playing /\ ~paused /\ pause
     \/ stop
     \/ song # 0 /\ \E timeMs \in SeekTargets: seek(timeMs)
     \/ \E id \in SongIds: loadSong(id)

\* the all-notes-off control change on each of the channels 0..15, in order
Broadcast == [c \in 1..16 |-> <<175 + c, 123, 0>>]

InterruptionStep ==
  Interruption =>
    /\ sinkOut' = IF midiOutput THEN Broadcast ELSE <<>>
    /\ busOut' # <<>> /\ busOut'[1] = [type |-> "allNotesOff"]
    /\ \A k \in 2..Len(busOut'): busOut'[k].type \notin {"allNotesOff", "noteOn", "noteOff"}

\* C17: every pause() from Playing, stop(), seek() with a song loaded and
\* loadSong() sends the all-notes-off broadcast, one message per channel
\* 0..15, to the bound output and publishes allNotesOff on the bus first, and
\* delivers no note event itself.
AllNotesOffOnInterruption == [][InterruptionStep]_vars

\* a seek on a Playing transport with notes sent broadcast to the output
AllNotesOffWitness ==
  /\ lastOp.op = "seek"
  /\ lastOp.mode = "playing"
  /\ midiOutput
  /\ Len(sinkOut) = 16
  /\ busOut[1].type = "allNotesOff"
  /\ \E i \in 1..Len(scheduledNotes): scheduledNotes[i].sent

IsNoteEv(ev) == ev.type \in {"noteOn", "noteOff"}

Ended(bus) == {k \in 1..Len(bus): bus[k].type = "ended"}

\* a tick on a Playing transport whose logical time has reached the duration
TickAtEnd ==
  /\ lastOp'.op = "tick"
  /\ song # 0 /\ playing /\ ~paused
  /\ getCurrentTime >= SecToMs(Songs[song].duration)
  /\ tick

EndOfSongStep ==
  /\ TickAtEnd =>
       /\ ~playing' /\ ~paused'
       /\ Cardinality(Ended(busOut')) = 1
       /\ \A k \in 1..Len(sinkOut'): ~IsNoteOn(sinkOut'[k]) /\ ~IsNoteOff(sinkOut'[k])
       /\ \A k \in 1..Len(busOut'): ~IsNoteEv(busOut'[k])
       /\ pending' = pending
  /\ Ended(busOut') # {} => TickAtEnd

\* C19: a tick on a Playing transport at a logical time >= the duration stops
\* the transport, raises 'ended' once and delivers no note event, and no
\* other step raises 'ended'.
EndOfSong == [][EndOfSongStep]_vars

\* the song ended on the first tick after a seek past its end
EndOfSongWitness ==
  /\ lastOp.op = "tick"
  /\ ~playing
  /\ Ended(busOut) # {}
  /\ song # 0
  /\ now - startTime > SecToMs(Songs[song].duration)
  /\ startTime < 0

\* the pitches of a song (the songs of the model share no pitch)
PitchesOf(id) ==
  LET flat == Flatten(Songs[id].tracks)
  IN {flat[k].midi : k \in 1..Len(flat)}

\* every note event of the last step belongs to a song play() was called for
OnlyPlayedSongs ==
  /\ \A k \in 1..Len(sinkOut):
       (IsNoteOn(sinkOut[k]) \/ IsNoteOff(sinkOut[k])) =>
         (song \in played /\ sinkOut[k][2] \in PitchesOf(song))
  /\ \A k \in 1..Len(busOut):
       IsNoteEv(busOut[k]) => \E id \in played: busOut[k].note \in PitchesOf(id)
  /\ \A k \in 1..Len(pending):
       IsNoteEv(pending[k].ev) => \E id \in played: pending[k].ev.note \in PitchesOf(id)
  /\ playing => song \in played

\* notes reach the output only from a Playing transport, which only play()
\* produces and every loadSong ends
OnlyWhilePlayingStep ==
  /\ (\E k \in 1..Len(sinkOut'): IsNoteOn(sinkOut'[k]) \/ IsNoteOff(sinkOut'[k])) =>
       (lastOp'.op = "tick" /\ playing /\ ~paused /\ song' = song)
  /\ (~playing /\ playing') => (lastOp'.op = "play" /\ song # 0 /\ song' = song)
  /\ lastOp'.op = "loadSong" => ~playing'

\* C18: no note event of a song reaches the output or the bus unless play()
\* was called after the song was loaded; loadSong(A) followed at once by
\* loadSong(B) emits no event of A.
NoEventsWithoutPlay == []OnlyPlayedSongs /\ [][OnlyWhilePlayingStep]_vars

\* loadSong(B) right after loadSong(A), before any play(): only the broadcast
\* went out
NoEventsWithoutPlayWitness ==
  /\ lastOp.op = "loadSong"
  /\ lastOp.rep
  /\ played = {}
  /\ midiOutput
  /\ sinkOut = Broadcast
  /\ pending = <<>>

\* a run of the interval callback that reaches the note loop
NoteTickStep ==
  /\ lastOp'.op = "tick"
  /\ tickDue /\ ~tickDue'
  /\ song # 0 /\ playing /\ ~paused
  /\ getCurrentTime < SecToMs(Songs[song].duration)

SendFailureStep ==
  NoteTickStep =>
    LET t == getCurrentTime
    IN /\ \A i \in 1..Len(scheduledNotes):
            LET s == scheduledNotes[i]
                after == scheduledNotes'[i]
            IN /\ after.sent = (s.sent \/ t >= s.noteOnTime)
               /\ after.offSent = (s.offSent \/ (after.sent /\ t >= s.noteOffTime))
       /\ Len(sinkOut') =
            Cardinality({i \in 1..Len(scheduledNotes): OnToSink(scheduledNotes[i], t)})
              + Cardinality({i \in 1..Len(scheduledNotes): OffToSink(scheduledNotes[i], t)})
       /\ (~isSwitching /\ output # NoPort) => Len(deviceOut') + caught' = Len(sinkOut')
       /\ playing' /\ ~paused' /\ intervals' = intervals

SentOnceEach ==
  \A i \in DOMAIN sinkOnCount: sinkOnCount[i] < 2 /\ sinkOffCount[i] < 2

InSwitchWindow == \E p \in Procs: connecting[p] # NoPort

SwitchingStep ==
  /\ (InSwitchWindow /\ \E throws \in ThrowPatterns: send(TestMessage, throws)) =>
       deviceOut' = <<>>
  /\ (\A p \in Procs: connecting'[p] = NoPort) => ~isSwitching'

\* C20 as stated: while a connect() is between its disconnect and the end of
\* its open every send() is dropped, and the lock is released once connect()
\* has returned.
SwitchingLockDropsSends == [][SwitchingStep]_vars

\* the source channel of the note with this pitch
SourceChannel(midi) ==
  LET all == Flatten(Songs[1].tracks) \o Flatten(Songs[2].tracks) \o Flatten(Songs[3].tracks)
  IN all[CHOOSE k \in 1..Len(all): all[k].midi = midi].channel

\* a note-on or note-off message, on whatever channel
IsNoteMessage(m) == m[1] >= 128 /\ m[1] < 160

KeepsSourceChannel(ev) == IsNoteEv(ev) => ev.channel = SourceChannel(ev.note)

\* C21: every note-on and note-off message handed to the output has status
\* 0x90 / 0x80 (output channel 0) whatever the channel of the note, and the
\* noteOn / noteOff event for the bus carries the channel of the note itself.
OutputRemap ==
  /\ \A k \in 1..Len(sinkOut): IsNoteMessage(sinkOut[k]) => sinkOut[k][1] \in {144, 128}
  /\ \A k \in 1..Len(busOut): KeepsSourceChannel(busOut[k])
  /\ \A k \in 1..Len(pending): KeepsSourceChannel(pending[k].ev)

\* a tick sent the note-on of the channel-1 note of song 2 to the output as
\* a channel-0 message and scheduled its bus event with channel 1
OutputRemapWitness ==
  /\ lastOp.op = "tick"
  /\ song = 2
  /\ \E k \in 1..Len(sinkOut): sinkOut[k][1] = 144 /\ sinkOut[k][2] = 70
  /\ \E k \in 1..Len(pending):
       /\ pending[k].ev.type = "noteOn"
       /\ pending[k].ev.note = 70
       /\ pending[k].ev.channel = 1

MisuseStep ==
  (song = 0 /\ (play \/ \E timeMs \in SeekTargets: seek(timeMs))) =>
    /\ UNCHANGED <<song, playing, paused, startTime, pauseTime, scheduledNotes,
                   playbackInterval, intervals, tickDue, pending, midiOutput,
                   pianoChannels, channelPrograms, midiDelayMs>>
    /\ intervals' = 0
    /\ sinkOut' = <<>>
    /\ busOut' = <<>>
    /\ deviceOut' = <<>>

\* C23: play() and seek() called while no song is loaded change no transport
\* state, start no tick loop, send nothing to the output and publish nothing
\* on the bus.
MisuseIsNoOp == [][MisuseStep]_vars

\* seek() and then play() were called with no song loaded
MisuseWitness ==
  /\ song = 0
  /\ lastOp.op = "play"
  /\ lastOp.arg \in SeekTargets
  /\ ~playing
  /\ intervals = 0

NegativeSeekStep ==
  \A timeMs \in SeekTargets:
    (timeMs < 0 /\ song # 0 /\ seek(timeMs)) => getCurrentTime' >= 0

\* C26 as stated: seek(targetMs) with targetMs < 0 is treated as a seek to 0,
\* the logical time computed at the end of the call is not negative.
NegativeSeekIsZero == [][NegativeSeekStep]_vars

\* C27 as stated: after every operation and every tick a tick loop is
\* scheduled if and only if the transport is Playing.
TickLoopTracksMode == (intervals > 0) <=> (playing /\ ~paused)

\* C28 as stated: at most one tick timer is active at any time.
SingleTickTimer == intervals <= 1

\* how often e occurs in a sequence
CountIn(seq, e) == Cardinality({k \in 1..Len(seq): seq[k] = e})

\* the timers from position from on that carry e and fire at due
CountTimers(timers, from, e, due) ==
  Cardinality({k \in from..Len(timers): timers[k].ev = e /\ timers[k].due = due})

\* what a tick that does not end the song does with the event e of a note:
\* if the event is due it goes to the bus once, at once with offset 0 and
\* through one timer of offset milliseconds otherwise; if not, nowhere
Republished(isDue, e) ==
  LET want == IF isDue THEN 1 ELSE 0
      fresher == Len(pending) + 1
  IN IF midiDelayMs = 0
     THEN /\ CountIn(busOut', e) = want
          /\ pending' = pending
     ELSE /\ CountIn(busOut', e) = 0
          /\ CountTimers(pending', fresher, e, now + midiDelayMs) = want
          /\ \A k \in fresher..Len(pending'):
               pending'[k].ev = e => pending'[k].due = now + midiDelayMs

BusTickStep ==
  (tickStep /\ getCurrentTime < SecToMs(Songs[song].duration)) =>
    \A i \in 1..Len(scheduledNotes):
      LET s == scheduledNotes[i]
          t == getCurrentTime
          onDue == ~s.sent /\ t >= s.noteOnTime
          offDue == (s.sent \/ onDue) /\ ~s.offSent /\ t >= s.noteOffTime
          routed == midiOutput /\ shouldSendToDisklavier(s.note.channel)
      IN /\ Republished(onDue, NoteOnEv(s))
         /\ Republished(offDue, NoteOffEv(s))
         /\ CountIn(sinkOut', NoteOnMsg(s)) = (IF onDue /\ routed THEN 1 ELSE 0)
         /\ CountIn(sinkOut', NoteOffMsg(s)) = (IF offDue /\ routed THEN 1 ELSE 0)

\* the timers phase publishes the events of the timers it removes, once
\* each, and no timer fires before it is due or stays when it is
BusTimerStep ==
  runTimersStep =>
    LET fires(k) == pending[k].due = now \/ now = Horizon
        fired == {k \in 1..Len(pending): fires(k)}
    IN /\ Len(busOut') = Cardinality(fired)
       /\ \A k \in 1..Len(pending):
            /\ CountIn(busOut', pending[k].ev)
                 = Cardinality({j \in fired: pending[j].ev = pending[k].ev})
            /\ CountIn(pending', pending[k])
                 = (IF fires(k) THEN 0 ELSE CountIn(pending, pending[k]))
       /\ sinkOut' = <<>>

NoOverdueTimer == \A k \in 1..Len(pending): pending[k].due >= now

\* C22: every note-on and note-off that becomes due in a tick, routed to the
\* output or not, is published on the bus exactly once, offset milliseconds
\* after the tick and within the tick when the offset is 0, while the
\* message for the output, if any, is sent within the tick.
BusRepublication == []NoOverdueTimer /\ [][BusTickStep]_vars /\ [][BusTimerStep]_vars

\* with an offset of 500 ms a tick sent the note-on of the strings to the
\* output and left the note-ons of the strings and of the drums, which the
\* output never gets, in two timers for the bus
BusRepublicationWitness ==
  /\ lastOp.op = "tick"
  /\ midiDelayMs = 500
  /\ midiOutput
  /\ sinkOut = <<NoteOnMsg(scheduledNotes[1])>>
  /\ \A k \in 1..Len(busOut): busOut[k].type = "update"
  /\ \E k \in 1..Len(pending):
       pending[k] = [due |-> now + 500, ev |-> NoteOnEv(scheduledNotes[2])]
  /\ \E k \in 1..Len(pending):
       pending[k] = [due |-> now + 500, ev |-> NoteOnEv(scheduledNotes[1])]

DelayStep ==
  /\ \A delayMs \in Delays:
       setMidiDelay(delayMs) =>
         /\ midiDelayMs' = (IF delayMs < 0 THEN 0 ELSE delayMs)
         /\ UNCHANGED <<song, playing, paused, startTime, pauseTime, scheduledNotes,
                        playbackInterval, intervals, tickDue, pending>>
         /\ sinkOut' = <<>>
         /\ busOut' = <<>>
  /\ (tickStep /\ getCurrentTime < SecToMs(Songs[song].duration)) =>
       IF midiDelayMs = 0
       THEN /\ pending' = pending
            /\ CountIn(busOut', LyricsEv(getCurrentTime)) = 1
       ELSE /\ Len(pending') > Len(pending)
            /\ SubSeq(pending', 1, Len(pending)) = pending
            /\ \A k \in (Len(pending) + 1)..Len(pending'):
                 pending'[k].due = now + midiDelayMs
            /\ \A k \in 1..Len(busOut'): busOut'[k].type = "update"

\* C25: the audio offset is never negative, setMidiDelay stores a negative
\* value as 0 and touches neither the transport nor the timers that wait,
\* and every tick after the call uses the new offset for what it emits.
AudioOffset == [](midiDelayMs >= 0) /\ [][DelayStep]_vars

\* the offset was set to 0 during playback: a tick published a noteOff at
\* once while the note-ons of an earlier tick still wait in their timers
AudioOffsetWitness ==
  /\ lastOp.op = "tick"
  /\ playing
  /\ midiDelayMs = 0
  /\ \E k \in 1..Len(pending): pending[k].ev.type = "noteOn" /\ pending[k].due > now
  /\ \E k \in 1..Len(busOut): busOut[k].type = "noteOff"

SameNote(a, b) == a.channel = b.channel /\ a.note = b.note

\* C30 as stated: the noteOff of a note is never published on the bus before
\* its noteOn, also when setMidiDelay changes the offset between the tick of
\* the note-on and the tick of the note-off.  In SpecOffset every note is
\* played once, so a noteOn that waits or comes later in the batch while the
\* noteOff of its note is published is the noteOn of that noteOff.
BusOrderUnderOffsetChanges ==
  \A k \in 1..Len(busOut):
    busOut[k].type = "noteOff" =>
      /\ \A j \in 1..Len(pending):
           ~(pending[j].ev.type = "noteOn" /\ SameNote(pending[j].ev, busOut[k]))
      /\ \A j \in (k + 1)..Len(busOut):
           ~(busOut[j].type = "noteOn" /\ SameNote(busOut[j], busOut[k]))

OnPublished(midi) ==
  \E k \in 1..Len(busOut): busOut[k].type = "noteOn" /\ busOut[k].note = midi

\* a noteOff of the note that is not ahead of its noteOn, or an allNotesOff
Silenced(midi) ==
  \/ \E k \in 1..Len(busOut): busOut[k].type = "allNotesOff"
  \/ \E k \in 1..Len(busOut):
       /\ busOut[k].type = "noteOff" /\ busOut[k].note = midi
       /\ \A j \in (k + 1)..Len(busOut): ~(busOut[j].type = "noteOn" /\ busOut[j].note = midi)

\* C29 as stated, for the noteOn events that are published while the
\* transport is Stopped: every such noteOn is followed on the bus by the
\* noteOff of its channel and note or by an allNotesOff, in every run in
\* which the timers that wait fire.
NoStuckNote ==
  \A midi \in PitchesOf(2): (OnPublished(midi) /\ ~playing) ~> Silenced(midi)

\* the lyrics event a tick has just handed to its timer
LastLyricsEv == pending[Len(pending)].ev

LyricsTickStep ==
  (tickStep /\ midiDelayMs > 0 /\ getCurrentTime < SecToMs(Songs[song].duration)) =>
    LET t == getCurrentTime
        ev == LastLyricsEv'
        hits == {k \in 1..Len(lyricsLines):
                   /\ t >= SecToMs(lyricsLines[k].startTime)
                   /\ t < SecToMs(lyricsLines[k].endTime)}
    IN /\ ev.type = "lyrics"
       /\ ev.lines = lyricsLines
       /\ ev.lines = groupLyricsIntoLines(Songs[song].lyrics)
       /\ ev.currentTime = t
       /\ hits = {} => ev.currentLineIndex = 0 - 1
       /\ hits # {} =>
            /\ ev.currentLineIndex + 1 \in hits
            /\ \A k \in hits: ev.currentLineIndex + 1 <= k

\* C24: getCurrentLyrics returns the grouped lines of the song as they are
\* and the 0-based index of the first line whose interval [startTime,
\* endTime) contains the logical time, -1 when no line contains it.
LyricProjection == [][LyricsTickStep]_vars

\* a tick at 2 s, where the second line ends and the third begins, reported
\* the third line
LyricProjectionWitness ==
  /\ lastOp.op = "tick"
  /\ song = 4
  /\ pending # <<>>
  /\ LastLyricsEv.type = "lyrics"
  /\ LastLyricsEv.currentTime = 2000
  /\ LastLyricsEv.currentLineIndex = 2
  /\ Len(LastLyricsEv.lines) = 3

\* C31 as stated: when connect() calls overlap the switching lock stays held
\* until the last of them has finished, so that it is held whenever some
\* connect() is between its disconnect and its reopen.
LockHeldUntilLastConnect == InSwitchWindow => isSwitching

\* C32 as stated: at most one output device is open at any time, and a
\* device whose reference was cleared or replaced has been closed, so that
\* the open devices are the one the manager refers to, if any.
NoLeakedDevice == openCount = (IF output = NoPort THEN 0 ELSE 1)

FlagsOrdered ==
  \A i \in 1..Len(scheduledNotes): scheduledNotes[i].offSent => scheduledNotes[i].sent

OffAfterOnStep ==
  \A i \in 1..Len(scheduledNotes):
    (Len(scheduledNotes') = Len(scheduledNotes)
       /\ scheduledNotes'[i].offSent /\ ~scheduledNotes[i].offSent) =>
      /\ lastOp'.op = "tick"
      /\ scheduledNotes'[i].sent

\* C33: in every reachable state every scheduled note with offSent set has
\* sent set, and only a tick sets offSent, for a note it leaves marked sent.
FlagInvariant == []FlagsOrdered /\ [][OffAfterOnStep]_vars

\* after a seek into the second note, whose on and off were sent before:
\* the first note keeps both flags, the second only sent, the third none
FlagInvariantWitness ==
  /\ lastOp.op = "seek"
  /\ lastOp.arg = 1500
  /\ song = 1
  /\ scheduledNotes[1].sent /\ scheduledNotes[1].offSent
  /\ scheduledNotes[2].sent /\ ~scheduledNotes[2].offSent
  /\ ~scheduledNotes[3].sent /\ ~scheduledNotes[3].offSent

\* the positions of e in a sequence
PositionsIn(seq, e) == {k \in 1..Len(seq): seq[k] = e}

\* e comes exactly once in seq and f exactly once, right behind it
OnceAndNext(seq, e, f) ==
  /\ Cardinality(PositionsIn(seq, e)) = 1
  /\ Cardinality(PositionsIn(seq, f)) = 1
  /\ \E k \in PositionsIn(seq, e): k + 1 \in PositionsIn(seq, f)

\* the events the tick of this step has put on the bus or into its timers
EmittedByTick ==
  IF midiDelayMs = 0 THEN busOut'
  ELSE [k \in 1..(Len(pending') - Len(pending)) |-> pending'[Len(pending) + k].ev]

ZeroDurationStep ==
  (tickStep /\ getCurrentTime < SecToMs(Songs[song].duration)) =>
    \A i \in 1..Len(scheduledNotes):
      LET s == scheduledNotes[i]
          t == getCurrentTime
      IN (s.note.duration = 0 /\ ~s.sent /\ t >= s.noteOnTime) =>
           /\ scheduledNotes'[i].sent /\ scheduledNotes'[i].offSent
           /\ OnceAndNext(EmittedByTick, NoteOnEv(s), NoteOffEv(s))
           /\ (midiOutput /\ s.note.channel \in pianoChannels) =>
                OnceAndNext(sinkOut', NoteOnMsg(s), NoteOffMsg(s))

ZeroDurationFlags ==
  \A i \in 1..Len(scheduledNotes):
    scheduledNotes[i].note.duration = 0 => scheduledNotes[i].sent = scheduledNotes[i].offSent

\* C34: a note of duration 0 gets, at the first tick whose logical time has
\* reached its start, its note-on and right behind it its note-off, both in
\* that tick, and the tick completes.
ZeroDurationNotes == []ZeroDurationFlags /\ [][ZeroDurationStep]_vars

\* the tick at 0.5 s sent the note-on and the note-off of the note of
\* duration 0 to the output, in this order
ZeroDurationWitness ==
  /\ lastOp.op = "tick"
  /\ song = 5
  /\ playing
  /\ now - startTime = 500
  /\ sinkOut = <<NoteOnMsg(scheduledNotes[2]), NoteOffMsg(scheduledNotes[2])>>
  /\ scheduledNotes[2].note.duration = 0
  /\ scheduledNotes[2].sent /\ scheduledNotes[2].offSent

PlayingItems == {k \in 1..Len(queue): queue[k].status = "playing"}

\* C35 as stated: after any sequence of queue and playback requests and
\* 'ended' notifications at most one row of the queue has status 'playing'.
SinglePlayingItem == Cardinality(PlayingItems) <= 1


----------------------------------------------------------------------------
(* C36: the channel classifier *)

ParsedTracks == Songs[song].tracks

\* C36: after a load the piano-channel set is the set of the channels other
\* than 9 on which at least one track of the parsed song declares a program
\* of the piano family 0..7; it never contains 9 (and may be empty).
ChannelClassifier ==
  song # 0 =>
    /\ pianoChannels =
         {c \in (0..15) \ {9}:
            \E k \in 1..Len(ParsedTracks):
              /\ ParsedTracks[k].channel = c
              /\ ParsedTracks[k].instrumentProgram \in 0..7}
    /\ 9 \notin pianoChannels

\* two tracks of the loaded song share a channel, one declares a piano
\* program and the other does not, and that channel is the piano channel
SharedChannelWitness ==
  /\ song # 0
  /\ \E j, k \in 1..Len(ParsedTracks):
       /\ ParsedTracks[j].channel = ParsedTracks[k].channel
       /\ ParsedTracks[j].instrumentProgram \in 0..7
       /\ ParsedTracks[k].instrumentProgram \notin 0..7
       /\ pianoChannels = {ParsedTracks[j].channel}


----------------------------------------------------------------------------
(* C37: the encoding of the three transport states *)

Stopped == <<FALSE, FALSE>>
Playing == <<TRUE, FALSE>>
Paused == <<TRUE, TRUE>>

\* C37: in every reachable state the pair (playing, paused) is Stopped,
\* Playing or Paused; paused is never true while playing is false.
ThreeStateEncoding ==
  /\ <<playing, paused>> \in {Stopped, Playing, Paused}
  /\ ~(paused /\ ~playing)

\* a loaded song has been played and paused: the pair is Paused
PausedEncodingWitness ==
  /\ song # 0
  /\ lastOp.op = "pause"
  /\ <<playing, paused>> = Paused

====
